---- MODULE Spec2Model ----
(***************************************************************************)
(* A model of vimeo-py-lib's VimeoClient (src/vimeo/__init__.py): the      *)
(* OAuth token held by the client, the response cache, the request builder *)
(* _request and the operations built on it (call, auth, get_access_token,  *)
(* upload).  The server and the transport are the environment: every       *)
(* response is chosen nondeterministically from small sets.                *)
(***************************************************************************)
EXTENDS Integers, Sequences, FiniteSets, TLC

VARIABLES
    token,          \* VimeoClient._token
    token_secret,   \* VimeoClient._token_secret
    cache_enabled,  \* VimeoClient._cache_enabled
    cache_expire,   \* VimeoClient._cache_expire
    memory_cache,   \* VimeoClient._memory_cache : hash -> (response_data, stored-at)
    clock,          \* time.time()
    pc,             \* position of the running upload(), "idle" between operations
    up,             \* local variables of upload()
    net,            \* summary of the HTTP requests the current/last operation handed to the transport
    wire,           \* the last of these requests, in full
    reply,          \* the transport's answer to it
    outcome,        \* how the last operation ended (return value or exception)
    socket          \* the socket module: whether urlopen lacks the timeout argument,
                    \* and socket.getdefaulttimeout()

vars == <<token, token_secret, cache_enabled, cache_expire, memory_cache,
          clock, pc, up, net, wire, reply, outcome, socket>>

(***************************************************************************)
(* Bounds of the model.                                                    *)
(***************************************************************************)
MaxSize == 1        \* file sizes, quota, ticket maximum and chunk sizes range over 0..MaxSize
MaxTime == 2        \* the clock runs from 0 to MaxTime
Expire == 1         \* the expiry given to enable_cache
MaxEntries == 2     \* uploads are started while the memory cache holds fewer entries than this
MaxKeys == 3        \* the mappings signed on their own have from 1 to MaxKeys keys

Sizes == 0..MaxSize

(***************************************************************************)
(* Program constants.                                                      *)
(***************************************************************************)
None == "None"                      \* Python's None; str(None) is 'None'
API_REST_URL == "http://vimeo.com/api/rest/v2"
API_AUTH_URL == "http://vimeo.com/oauth/authorize"
API_ACCESS_TOKEN_URL == "http://vimeo.com/oauth/access_token"
API_REQUEST_TOKEN_URL == "http://vimeo.com/oauth/request_token"
CACHE_FILE == "file"
CACHE_MEMORY == "memory"
CACHE_DROP_PARAMETERS == {"oauth_nonce", "oauth_signature", "oauth_timestamp"}
DefaultCacheExpire == 600
RequestTimeout == 30
NoTimeout == -1                     \* socket.getdefaulttimeout() returning None
PriorTimeout == 10                  \* a default the application has set itself

\* credentials given to the constructor
ConsumerKey == "ck"
ConsumerSecret == "cs"

(***************************************************************************)
(* The environment: tokens the server issues, tickets, error replies.      *)
(***************************************************************************)
RequestTokens == {"rt1"}
AccessTokens == {"at1"}
Tokens == RequestTokens \cup AccessTokens
Secrets == {"rs1", "as1"}
Tickets == {"t1", "t2"}
Endpoint(t) == IF t = "t1" THEN "http://upload.vimeo.com/t1" ELSE "http://upload.vimeo.com/t2"
VideoIds == {"v1"}
ReplaceIds == {None, "v0"}
FileName == "movie.mp4"
ApiErrors == {[code |-> "701", msg |-> "Invalid ticket"],
              [code |-> "401", msg |-> "Permission denied"]}
Nonces == {"n1", "n2"}

EmptyMap == [k \in {} |-> None]
Restrict(f, S) == [k \in S |-> f[k]]

\* Exceptions and results
NoExc == [type |-> "none", method |-> "", code |-> "", msg |-> ""]
VimeoAPIError(method, code, msg) ==
    [type |-> "VimeoAPIError", method |-> method, code |-> code, msg |-> msg]
PyError(type) == [type |-> type, method |-> "", code |-> "", msg |-> ""]

\* JSON response envelopes, already decoded
JsonOk(data) == [stat |-> "ok", err |-> [code |-> "", msg |-> ""], data |-> data]
JsonFail(e) == [stat |-> "fail", err |-> e, data |-> [none |-> None]]
HttpOk(body) == [http |-> "ok", body |-> body]
TransportError == [http |-> "error", body |-> [none |-> None]]

(***************************************************************************)
(* Response cache.                                                         *)
(***************************************************************************)
\* urllib.urlencode(params) after the volatile keys are deleted
CacheParams(params) == Restrict(params, DOMAIN params \ CACHE_DROP_PARAMETERS)

\* hashlib.md5(s).hexdigest(): a string, taken to be collision free
Md5Hexdigest(s) == [hexdigest |-> s]

\* hashlib.md5(s).hexdigest without the call: the bound method object, which
\* is equal to no string
Md5HexdigestMethod(s) == [bound_method |-> s]

\* the key _cache stores a response under
_cache_hash(params) == Md5Hexdigest(CacheParams(params))

\* the key _get_cached looks a response up under
_get_cached_hash(params) == Md5HexdigestMethod(CacheParams(params))

\* _cache(params, response_data): the memory cache afterwards
_cache(mc, params, response_data) ==
    LET hash == _cache_hash(params)
    IN  (hash :> [response_data |-> response_data, stored |-> clock])
            @@ mc

\* the entries _get_cached leaves in the memory cache: the expired ones are deleted
Purged(mc) ==
    Restrict(mc, {k \in DOMAIN mc : ~(mc[k].stored + cache_expire < clock)})

\* what _get_cached(params) returns from the (purged) memory cache:
\* self._memory_cache.get(hash), the stored pair, or None (found = FALSE)
_get_cached(mc, params) ==
    LET hash == _get_cached_hash(params)
    IN  IF hash \in DOMAIN mc
        THEN [found |-> TRUE, value |-> mc[hash]]
        ELSE [found |-> FALSE, value |-> [none |-> None]]

(***************************************************************************)
(* Signature engine and request builder.                                   *)
(***************************************************************************)
\* the caller keys for which k.index('oauth_') == 0
OAuthPrefixed == {"oauth_verifier", "oauth_callback", "oauth_token", "oauth_nonce"}

\* the position sorted() gives a key among the keys that occur
Rank ==
    [filename |-> 1, format |-> 2, method |-> 3, oauth_callback |-> 4,
     oauth_consumer_key |-> 5, oauth_nonce |-> 6, oauth_signature |-> 7,
     oauth_signature_method |-> 8, oauth_timestamp |-> 9, oauth_token |-> 10,
     oauth_verifier |-> 11, oauth_version |-> 12, ticket_id |-> 13, video_id |-> 14]

RECURSIVE Insert(_, _)
Insert(k, list) ==
    IF list = <<>> THEN <<k>>
    ELSE IF Rank[k] <= Rank[Head(list)] THEN <<k>> \o list
    ELSE <<Head(list)>> \o Insert(k, Tail(list))

RECURSIVE sorted(_)

\* variant: the keys are taken in the order the dict iterates
unsorted(list) == list

\* sorted(list)
sorted(list) ==
    IF list = <<>> THEN <<>> ELSE Insert(Head(list), sorted(Tail(list)))

\* urllib.quote(str(v), safe = '') and urllib.quote_plus: one layer of
\* percent-encoding; urllib.unquote takes one layer off (the encoded text has
\* no blank, so quote_plus and unquote are inverse on it)
quote(v) == [quoted |-> v]
unquote(q) == q.quoted

\* _url_encode_rfc3986 of a dict: a copy with every value encoded
_url_encode_rfc3986(input) == [k \in DOMAIN input |-> quote(input[k])]

\* urllib.urlencode of a list of pairs
urlencode(items) ==
    [i \in 1..Len(items) |-> <<quote(items[i][1]), quote(items[i][2])>>]

\* urllib.unquote of an encoded query string
unquote_query(querystring) ==
    [i \in 1..Len(querystring) |->
        <<unquote(querystring[i][1]), unquote(querystring[i][2])>>]

\* request_method.upper()
upper(request_method) ==
    IF request_method = "get" THEN "GET"
    ELSE IF request_method = "post" THEN "POST"
    ELSE request_method

\* _generate_signature for a dict whose keys iterate in the order key_list,
\* statement by statement: sorted keys, encoded values, query string, base
\* string and signing key; HMAC-SHA1 is taken to be injective
_generate_signature_of(params, key_list, request_method, url) ==
    LET sorted_keys == sorted(key_list)
        encoded == _url_encode_rfc3986(params)
        items == [i \in 1..Len(sorted_keys) |->
                    <<sorted_keys[i], encoded[sorted_keys[i]]>>]
        querystring == urlencode(items)
    IN  [base_string |-> <<quote(upper(request_method)), quote(url),
                           quote(unquote_query(querystring))>>,
         key |-> <<quote(ConsumerSecret),
                   quote(IF token_secret = None THEN "" ELSE token_secret)>>]

\* _generate_signature as the request builder uses it: the query part is
\* built from the keys in sorted order, so the signature is a function of the
\* mapping, the verb, the URL and the two secrets
_generate_signature(params, request_method, url) ==
    [base_string |-> [verb |-> upper(request_method), url |-> url, query |-> params],
     key |-> [consumer_secret |-> ConsumerSecret,
              token_secret |-> IF token_secret = None THEN "" ELSE token_secret]]

\* the record of an HTTP request handed to the transport
HttpRequest(verb, url, query, auth, signed) ==
    [verb |-> verb, url |-> url, query |-> query,
     has_auth_header |-> auth # EmptyMap, authorization |-> auth,
     signed |-> signed] 

\* what the net log keeps of a request
Summary(req) ==
    LET all == req.query @@ req.authorization
        get(k) == IF k \in DOMAIN all THEN all[k] ELSE ""
    IN  [verb |-> req.verb, url |-> req.url, method |-> get("method"),
         oauth_token |-> get("oauth_token"), ticket_id |-> get("ticket_id")]

\* result of _request: how it ended, what it handed to the transport, and
\* the memory cache it leaves
Result(kind, exc, value, sent, mc, sock) ==
    [kind |-> kind, exc |-> exc, value |-> value, sent |-> sent, cache |-> mc,
     socket |-> sock]

\* the socket module after urlopen: where urlopen takes the timeout argument
\* nothing changes; where it does not, the TypeError branch sets the default
\* to 30, opens the URL and sets the old default back, which is skipped when
\* the second urlopen raises
AfterUrlopen(opened) ==
    IF socket.legacy /\ ~opened
    THEN [socket EXCEPT !.default_timeout = RequestTimeout]
    ELSE socket

\* variant: the active token is left out of the oauth arguments
oauth_defaults_no_token(nonce) ==
    ("oauth_consumer_key" :> ConsumerKey) @@ ("oauth_version" :> "1.0")
    @@ ("oauth_signature_method" :> "HMAC-SHA1")
    @@ ("oauth_timestamp" :> ToString(clock)) @@ ("oauth_nonce" :> nonce)

\* the oauth arguments _request prepares, with the active token if there is one
oauth_defaults(nonce) ==
    LET base == ("oauth_consumer_key" :> ConsumerKey) @@ ("oauth_version" :> "1.0")
                @@ ("oauth_signature_method" :> "HMAC-SHA1")
                @@ ("oauth_timestamp" :> ToString(clock)) @@ ("oauth_nonce" :> nonce)
    IN  IF token # None THEN ("oauth_token" :> token) @@ base ELSE base

\* oauth_params after the caller's arguments are merged in
oauth_params(call_params, nonce) ==
    Restrict(call_params, DOMAIN call_params \cap OAuthPrefixed) @@ oauth_defaults(nonce)

\* variant: the caller's oauth_ arguments are kept among the API parameters
api_params_with_oauth(method, call_params) ==
    Restrict(call_params, {k \in DOMAIN call_params : call_params[k] # None})
    @@ (IF method # None THEN ("method" :> method) @@ ("format" :> "json")
        ELSE ("format" :> "json"))

\* api_params after the caller's arguments are merged in
api_params(method, call_params) ==
    Restrict(call_params,
             {k \in DOMAIN call_params \ OAuthPrefixed : call_params[k] # None})
    @@ (IF method # None THEN ("method" :> method) @@ ("format" :> "json")
        ELSE ("format" :> "json"))

\* signature_params: the union the signature is computed over
signature_params(method, call_params, nonce) ==
    api_params(method, call_params) @@ oauth_params(call_params, nonce)

\* oauth_params with oauth_signature stored in it
oauth_signed(method, call_params, request_method, url, nonce) ==
    ("oauth_signature" :>
        _generate_signature(signature_params(method, call_params, nonce),
                            request_method, url))
    @@ oauth_params(call_params, nonce)

\* all_params: the union with the signature
all_params(method, call_params, request_method, url, nonce) ==
    api_params(method, call_params)
    @@ oauth_signed(method, call_params, request_method, url, nonce)

\* variant: the server's code is replaced by a generic one
ApiErrorGeneric(method, response_data) ==
    VimeoAPIError(method, "0", response_data.err.msg)

\* the VimeoAPIError _request raises for a response whose stat is not "ok"
ApiErrorOf(method, response_data) ==
    VimeoAPIError(method, response_data.err.code, response_data.err.msg)

\* variant: the cache is used whatever the caller's flag says
CacheAllowedAlways(cache) == cache_enabled # None

\* self._cache_enabled and cache: the cache may serve and store this request
CacheAllowed(cache) == cache_enabled # None /\ cache

\* _request(method, call_params, request_method, url, cache, use_auth_header)
\* with the nonce it draws and the transport's answer rsp
_request(method, call_params, request_method, url, cache, use_auth_header, nonce, rsp) ==
    LET all == all_params(method, call_params, request_method, url, nonce)
        mc1 == IF cache_enabled = CACHE_MEMORY THEN Purged(memory_cache) ELSE memory_cache
        cached == IF cache_enabled = CACHE_MEMORY THEN _get_cached(mc1, all)
                  ELSE [found |-> FALSE, value |-> [none |-> None]]
        params == IF use_auth_header THEN api_params(method, call_params) ELSE all
        auth_header == IF use_auth_header
                       THEN oauth_signed(method, call_params, request_method, url, nonce)
                       ELSE EmptyMap
        request == HttpRequest(request_method, url, params, auth_header,
                               signature_params(method, call_params, nonce))
        response_data == rsp.body
        mc2 == IF CacheAllowed(cache)
               THEN _cache(mc1, all, response_data) ELSE mc1
    IN  IF cache_enabled = CACHE_FILE
        THEN \* _get_cached: os.path.join(dir, <bound method>, '.cache')
             Result("raise", PyError("AttributeError"), [none |-> None], <<>>, memory_cache,
                    socket)
        ELSE IF CacheAllowed(cache) /\ cached.found
        THEN Result("return", NoExc, cached.value, <<>>, mc1, socket)
        ELSE IF request_method = "POST"
        THEN \* urllib.urlencode(items): no such name
             Result("raise", PyError("NameError"), [none |-> None], <<>>, mc1, socket)
        ELSE IF rsp.http # "ok"
        THEN Result("raise", PyError("URLError"), [none |-> None], <<request>>, mc1,
                    AfterUrlopen(FALSE))
        ELSE IF method = None
        THEN Result("return", NoExc, response_data, <<request>>, mc1, AfterUrlopen(TRUE))
        ELSE IF response_data.stat = "ok"
        THEN Result("return", NoExc, response_data, <<request>>, mc2, AfterUrlopen(TRUE))
        ELSE Result("raise", ApiErrorOf(method, response_data),
                    [none |-> None], <<request>>, mc2, AfterUrlopen(TRUE))

\* method.startswith('vimeo.')
StartsWithVimeo(method) ==
    method \in {"vimeo.videos.getInfo", "vimeo.videos.upload.getQuota",
                "vimeo.videos.upload.getTicket", "vimeo.videos.upload.verifyChunks",
                "vimeo.videos.upload.complete"}

\* 'vimeo.' + method
PrependVimeo(method) ==
    IF method = "videos.getInfo" THEN "vimeo.videos.getInfo" ELSE method

\* call(method, params, request_method, url, cache)
call(method, params, request_method, url, cache, nonce, rsp) ==
    _request(IF StartsWithVimeo(method) THEN method ELSE PrependVimeo(method),
             params, request_method, url, cache, TRUE, nonce, rsp)

(***************************************************************************)
(* Answers of the server.                                                  *)
(***************************************************************************)
\* Sizes are decoded as JSON numbers, on which int() is the identity.
FailResponses == {HttpOk(JsonFail(e)) : e \in ApiErrors} \cup {TransportError}
QuotaResponses ==
    {HttpOk(JsonOk([free |-> f])) : f \in Sizes} \cup FailResponses
TicketResponses ==
    {HttpOk(JsonOk([id |-> t, endpoint |-> Endpoint(t), max_file_size |-> m])) :
        t \in Tickets, m \in Sizes} \cup FailResponses
VerifyResponses ==
    {HttpOk(JsonOk([chunk_id |-> "0", size |-> n])) : n \in Sizes} \cup FailResponses
CompleteResponses ==
    {HttpOk(JsonOk([video_id |-> v])) : v \in VideoIds} \cup FailResponses
CallResponses ==
    {HttpOk(JsonOk([video |-> "info"]))} \cup FailResponses
PutResponses == {HttpOk([none |-> None]), TransportError}
\* url-encoded bodies of the token endpoints, as their key/value pairs; a
\* blank value is written ""
RequestTokenResponses ==
    {HttpOk([oauth_token |-> t, oauth_token_secret |-> "rs1"]) :
        t \in RequestTokens \cup {""}}
    \cup {HttpOk([oauth_token |-> t]) : t \in RequestTokens}
    \cup {TransportError}
AccessTokenResponses ==
    {HttpOk([oauth_token |-> t, oauth_token_secret |-> "as1"]) : t \in AccessTokens}
    \cup {TransportError}

CallMethods == {"videos.getInfo", "vimeo.videos.getInfo"}
CallParams == {EmptyMap, "video_id" :> "v1"}
Verbs == {"GET", "POST"}
Permissions == {"read", "write"}
Callbacks == {"oob"}
Verifiers == {"vf1"}

(***************************************************************************)
(* State after construction and the effect of a request on it.             *)
(***************************************************************************)
NoUpload ==
    [file_size |-> 0, replace_id |-> None, quota_free |-> -1, ticket |-> "unbound",
     endpoint |-> "unbound", max_file_size |-> -1, chunk_size |-> -1, errors |-> <<>>,
     fp |-> "none"]
NoRequest == HttpRequest("", "", EmptyMap, EmptyMap, EmptyMap)
Outcome(op, args, kind, exc, value) ==
    [op |-> op, args |-> args, kind |-> kind, exc |-> exc, value |-> value]
NoValue == [none |-> None]
NoReply == [http |-> "none", body |-> NoValue]

\* VimeoClient.__init__: the token pair is set only when both are given
InitClient ==
    /\ \E t \in AccessTokens \cup {None}, x \in {"as1", None} :
          IF t # None /\ x # None
          THEN token = t /\ token_secret = x
          ELSE token = None /\ token_secret = None
    /\ cache_enabled = None
    /\ cache_expire = DefaultCacheExpire
    /\ memory_cache = EmptyMap
    /\ clock = 0
    /\ pc = "idle"
    /\ up = NoUpload
    /\ net = <<>>
    /\ wire = NoRequest
    /\ reply = NoReply
    /\ outcome = Outcome("init", NoValue, "return", NoExc, NoValue)

\* a new client on an interpreter whose urlopen takes the timeout argument
Init ==
    /\ InitClient
    /\ socket = [legacy |-> FALSE, default_timeout |-> NoTimeout]

\* a new client on an interpreter whose urlopen does not take it, with or
\* without a default timeout set by the application
InitLegacy ==
    /\ InitClient
    /\ \E d \in {NoTimeout, PriorTimeout} :
          socket = [legacy |-> TRUE, default_timeout |-> d]

\* the transport and cache effects of a _request result r that was answered
\* rsp, appended to log
Effects(r, rsp, log) ==
    /\ memory_cache' = r.cache
    /\ socket' = r.socket
    /\ net' = log \o [i \in 1..Len(r.sent) |-> Summary(r.sent[i])]
    /\ wire' = IF r.sent # <<>> THEN r.sent[Len(r.sent)]
               ELSE IF log = <<>> THEN NoRequest ELSE wire
    /\ reply' = IF r.sent # <<>> THEN rsp
                ELSE IF log = <<>> THEN NoReply ELSE reply

\* an operation that makes no request: the record of the last one is dropped
NoTraffic ==
    /\ net' = <<>>
    /\ wire' = NoRequest
    /\ reply' = NoReply
    /\ up' = NoUpload
    /\ UNCHANGED socket

\* an upload is started while the cache has room
CacheRoom == Cardinality(DOMAIN memory_cache) < MaxEntries

(***************************************************************************)
(* Token and cache operations.                                             *)
(***************************************************************************)
\* variant: the secret of the previous token is kept
SetTokenOnly(t, x) ==
    /\ token' = t
    /\ UNCHANGED token_secret

\* the two assignments of set_token
SetTokenPair(t, x) ==
    /\ token' = t
    /\ token_secret' = x

set_token(t, x) ==
    /\ pc = "idle"
    /\ SetTokenPair(t, x)
    /\ outcome' = Outcome("set_token", NoValue, "return", NoExc, NoValue)
    /\ NoTraffic
    /\ UNCHANGED <<cache_enabled, cache_expire, memory_cache, clock, pc>>

enable_cache(type, expire) ==
    /\ pc = "idle"
    /\ cache_enabled' = type
    /\ memory_cache' = IF type = CACHE_MEMORY THEN EmptyMap ELSE memory_cache
    /\ cache_expire' = expire
    /\ outcome' = Outcome("enable_cache", NoValue, "return", NoExc, NoValue)
    /\ NoTraffic
    /\ UNCHANGED <<token, token_secret, clock, pc>>

disable_cache ==
    /\ pc = "idle"
    /\ cache_enabled' = None
    /\ outcome' = Outcome("disable_cache", NoValue, "return", NoExc, NoValue)
    /\ NoTraffic
    /\ UNCHANGED <<token, token_secret, cache_expire, memory_cache, clock, pc>>

\* clear_cache(cache_type); dir_set tells whether an earlier
\* enable_cache(CACHE_FILE) has left a _cache_dir, as it has whenever the
\* file cache is the active one
clear_cache(cache_type, dir_set) ==
    /\ pc = "idle"
    /\ cache_enabled = CACHE_FILE => dir_set
    /\ LET args == [cache_type |-> cache_type]
       IN  IF cache_type = None
           THEN \* self.__cache_enabled is self._VimeoClient__cache_enabled
                /\ outcome' = Outcome("clear_cache", args, "raise",
                                      PyError("AttributeError"), NoValue)
                /\ UNCHANGED memory_cache
           ELSE IF cache_type = CACHE_MEMORY
           THEN /\ memory_cache' = EmptyMap
                /\ outcome' = Outcome("clear_cache", args, "return", NoExc, NoValue)
           ELSE IF cache_type = CACHE_FILE /\ dir_set
           THEN \* os.path.listdir: the module os.path has no such function
                /\ outcome' = Outcome("clear_cache", args, "raise",
                                      PyError("AttributeError"), NoValue)
                /\ UNCHANGED memory_cache
           ELSE /\ outcome' = Outcome("clear_cache", args, "return", NoExc, NoValue)
                /\ UNCHANGED memory_cache
    /\ NoTraffic
    /\ UNCHANGED <<token, token_secret, cache_enabled, cache_expire, clock, pc>>

\* time.time() advances
Tick ==
    /\ clock < MaxTime
    /\ clock' = clock + 1
    /\ UNCHANGED <<token, token_secret, cache_enabled, cache_expire, memory_cache,
                   pc, up, net, wire, reply, outcome, socket>>

\* a named API method issued through call()
Call(method, params, verb, cache, nonce, rsp) ==
    /\ pc = "idle"
    /\ LET r == call(method, params, verb, API_REST_URL, cache, nonce, rsp)
       IN  /\ Effects(r, rsp, <<>>)
           /\ outcome' = Outcome("call",
                            [method |-> method, params |-> params, verb |-> verb,
                             cache |-> cache],
                            r.kind, r.exc, r.value)
    /\ up' = NoUpload
    /\ UNCHANGED <<token, token_secret, cache_enabled, cache_expire, clock, pc>>

(***************************************************************************)
(* Auth flow.                                                              *)
(***************************************************************************)
\* _generate_signature(params, request_method, url) on a dict whose keys
\* iterate in the order key_list; the value keeps the signature and the dict
\* as the caller finds it afterwards (line 176 rebinds the local name to the
\* encoded copy made at line 365)
GenerateSignature(params, key_list, request_method, url) ==
    /\ pc = "idle"
    /\ outcome' = Outcome("_generate_signature",
                     [params |-> params, key_list |-> key_list,
                      request_method |-> request_method, url |-> url],
                     "return", NoExc,
                     [signature |-> _generate_signature_of(params, key_list,
                                                           request_method, url),
                      params |-> params])
    /\ NoTraffic
    /\ UNCHANGED <<token, token_secret, cache_enabled, cache_expire, memory_cache,
                   clock, pc>>

\* _parse_token_string: parse_qs drops the blank values, and every key that
\* occurs once is mapped to its value
_parse_token_string(tokenstring) ==
    Restrict(tokenstring, {k \in DOMAIN tokenstring : tokenstring[k] # ""})

\* get_authorize_url: API_AUTH_URL + '?oauth_token=%s&permission=%s'
get_authorize_url(t, permission) ==
    <<API_AUTH_URL, "?oauth_token=", t, "&permission=", permission>>

\* get_request_token(callback_url): the _request it makes
get_request_token(callback_url, nonce, rsp) ==
    _request(None, "oauth_callback" :> callback_url, "GET", API_REQUEST_TOKEN_URL,
             FALSE, FALSE, nonce, rsp)

\* get_request_token(callback_url) called by the application: the parsed
\* token is returned and the active pair is left alone
GetRequestToken(callback_url, nonce, rsp) ==
    /\ pc = "idle"
    /\ LET r == get_request_token(callback_url, nonce, rsp)
           args == [callback_url |-> callback_url]
       IN  /\ Effects(r, rsp, <<>>)
           /\ outcome' = IF r.kind = "raise"
                         THEN Outcome("get_request_token", args, "raise", r.exc, NoValue)
                         ELSE Outcome("get_request_token", args, "return", NoExc,
                                      _parse_token_string(r.value))
    /\ up' = NoUpload
    /\ UNCHANGED <<token, token_secret, cache_enabled, cache_expire, clock, pc>>

\* variant: the token is taken over before the secret is looked up
auth_adopting_early(permission, callback_url, nonce, rsp) ==
    /\ pc = "idle"
    /\ LET r == get_request_token(callback_url, nonce, rsp)
           t == _parse_token_string(r.value)
           args == [permission |-> permission, callback_url |-> callback_url]
       IN  /\ Effects(r, rsp, <<>>)
           /\ IF r.kind = "raise"
              THEN /\ outcome' = Outcome("auth", args, "raise", r.exc, NoValue)
                   /\ UNCHANGED <<token, token_secret>>
              ELSE IF "oauth_token" \notin DOMAIN t
              THEN /\ outcome' = Outcome("auth", args, "raise", PyError("KeyError"),
                                         NoValue)
                   /\ UNCHANGED <<token, token_secret>>
              ELSE IF "oauth_token_secret" \notin DOMAIN t
              THEN /\ outcome' = Outcome("auth", args, "raise", PyError("KeyError"),
                                         NoValue)
                   /\ token' = t["oauth_token"]
                   /\ UNCHANGED token_secret
              ELSE /\ SetTokenPair(t["oauth_token"], t["oauth_token_secret"])
                   /\ outcome' = Outcome("auth", args, "return", NoExc,
                                    get_authorize_url(token', permission))
    /\ up' = NoUpload
    /\ UNCHANGED <<cache_enabled, cache_expire, clock, pc>>

\* auth(permission, callback_url)
auth(permission, callback_url, nonce, rsp) ==
    /\ pc = "idle"
    /\ LET r == get_request_token(callback_url, nonce, rsp)
           t == _parse_token_string(r.value)
           args == [permission |-> permission, callback_url |-> callback_url]
       IN  /\ Effects(r, rsp, <<>>)
           /\ IF r.kind = "raise"
              THEN /\ outcome' = Outcome("auth", args, "raise", r.exc, NoValue)
                   /\ UNCHANGED <<token, token_secret>>
              ELSE IF ~({"oauth_token", "oauth_token_secret"} \subseteq DOMAIN t)
              THEN /\ outcome' = Outcome("auth", args, "raise", PyError("KeyError"),
                                         NoValue)
                   /\ UNCHANGED <<token, token_secret>>
              ELSE /\ SetTokenPair(t["oauth_token"], t["oauth_token_secret"])
                   /\ outcome' = Outcome("auth", args, "return", NoExc,
                                    get_authorize_url(token', permission))
    /\ up' = NoUpload
    /\ UNCHANGED <<cache_enabled, cache_expire, clock, pc>>

\* variant: the access token is adopted as soon as it is received
get_access_token_adopting(verifier, nonce, rsp) ==
    /\ pc = "idle"
    /\ LET r == _request(None, "oauth_verifier" :> verifier, "GET",
                         API_ACCESS_TOKEN_URL, FALSE, TRUE, nonce, rsp)
           t == _parse_token_string(r.value)
       IN  /\ Effects(r, rsp, <<>>)
           /\ IF r.kind = "raise"
              THEN /\ outcome' = Outcome("get_access_token", [verifier |-> verifier],
                                         "raise", r.exc, NoValue)
                   /\ UNCHANGED <<token, token_secret>>
              ELSE /\ outcome' = Outcome("get_access_token", [verifier |-> verifier],
                                         "return", NoExc, t)
                   /\ token' = t["oauth_token"]
                   /\ token_secret' = t["oauth_token_secret"]
    /\ up' = NoUpload
    /\ UNCHANGED <<cache_enabled, cache_expire, clock, pc>>

\* get_access_token(verifier)
get_access_token(verifier, nonce, rsp) ==
    /\ pc = "idle"
    /\ LET r == _request(None, "oauth_verifier" :> verifier, "GET",
                         API_ACCESS_TOKEN_URL, FALSE, TRUE, nonce, rsp)
       IN  /\ Effects(r, rsp, <<>>)
           /\ outcome' = IF r.kind = "raise"
                         THEN Outcome("get_access_token", [verifier |-> verifier],
                                      "raise", r.exc, NoValue)
                         ELSE Outcome("get_access_token", [verifier |-> verifier],
                                      "return", NoExc, _parse_token_string(r.value))
    /\ up' = NoUpload
    /\ UNCHANGED <<token, token_secret, cache_enabled, cache_expire, clock, pc>>

(***************************************************************************)
(* upload(file, replace_id, mimetype), one action per network step.        *)
(***************************************************************************)
\* upload() leaves with an exception or a value
Leave(kind, exc, value) ==
    /\ pc' = "idle"
    /\ outcome' = Outcome("upload", NoValue, kind, exc, value)

\* a cached pair returned in place of the decoded response cannot be indexed
Unusable(r) == r.kind = "return" /\ r.sent = <<>>

\* what upload() may be given as file: a path, or an object with a read method
Files == {"path", "object"}

\* fp after lines 503-509: a handle upload() has opened itself, or the
\* caller's object
Opened(file) == IF file = "path" THEN "open" ELSE "caller"

\* the handle when upload() has ended: upload() has no call of close(); once
\* it has returned, the interpreter's collector may or may not have released
\* a handle it opened, and an exception keeps the frame and the handle
AfterExit(kind, fp) ==
    IF kind = "return" /\ fp = "open" THEN {"open", "collected"} ELSE {fp}

\* the file is opened and measured
UploadBegin(file, file_size, replace_id) ==
    /\ pc = "idle"
    /\ CacheRoom
    /\ pc' = "getQuota"
    /\ up' = [NoUpload EXCEPT !.file_size = file_size, !.replace_id = replace_id,
                              !.fp = Opened(file)]
    /\ net' = <<>>
    /\ wire' = NoRequest
    /\ reply' = NoReply
    /\ outcome' = Outcome("upload", NoValue, "running", NoExc, NoValue)
    /\ UNCHANGED <<token, token_secret, cache_enabled, cache_expire, memory_cache,
                   clock, socket>>

\* variant: a file that exactly fills the quota is rejected too
QuotaExceededOrEqual(quota_free, file_size) == quota_free <= file_size

\* quota_free < file_size
QuotaExceeded(quota_free, file_size) == quota_free < file_size

UploadGetQuota(nonce, rsp) ==
    /\ pc = "getQuota"
    /\ LET method == "vimeo.videos.upload.getQuota"
           r == call(method, EmptyMap, "GET", API_REST_URL, TRUE, nonce, rsp)
       IN  /\ Effects(r, rsp, net)
           /\ IF r.kind = "raise"
              THEN Leave("raise", r.exc, NoValue) /\ UNCHANGED up
              ELSE IF Unusable(r)
              THEN Leave("raise", PyError("TypeError"), NoValue) /\ UNCHANGED up
              ELSE /\ up' = [up EXCEPT !.quota_free = r.value.data.free]
                   /\ IF QuotaExceeded(r.value.data.free, up.file_size)
                      THEN Leave("raise",
                             VimeoAPIError(method, "707",
                               "The file is larger than the user's remaining quota."),
                             NoValue)
                      ELSE pc' = "getTicket" /\ UNCHANGED outcome
    /\ UNCHANGED <<token, token_secret, cache_enabled, cache_expire, clock>>

\* variant: a file of exactly the maximum size is rejected too
SizeExceededOrEqual(file_size, max_file_size) == file_size >= max_file_size

\* file_size > rsp['ticket']['max_file_size']
SizeExceeded(file_size, max_file_size) == file_size > max_file_size

UploadGetTicket(nonce, rsp) ==
    /\ pc = "getTicket"
    /\ LET method == "vimeo.videos.upload.getTicket"
           params == IF up.replace_id # None THEN "video_id" :> up.replace_id
                     ELSE EmptyMap
           r == call(method, params, "GET", API_REST_URL, FALSE, nonce, rsp)
       IN  /\ Effects(r, rsp, net)
           /\ IF r.kind = "raise"
              THEN Leave("raise", r.exc, NoValue) /\ UNCHANGED up
              ELSE /\ up' = [up EXCEPT !.ticket = r.value.data.id,
                                       !.endpoint = r.value.data.endpoint,
                                       !.max_file_size = r.value.data.max_file_size]
                   /\ IF SizeExceeded(up.file_size, r.value.data.max_file_size)
                      THEN Leave("raise",
                             VimeoAPIError(method, "710",
                               "File exceeds maximum allowed size."),
                             NoValue)
                      ELSE pc' = "put" /\ UNCHANGED outcome
    /\ UNCHANGED <<token, token_secret, cache_enabled, cache_expire, clock>>

\* variant: a failed transfer is tried again
UploadPutRetrying(rsp) ==
    /\ pc = "put"
    /\ LET request == HttpRequest("PUT", up.endpoint, EmptyMap, EmptyMap, EmptyMap)
       IN  /\ net' = Append(net, Summary(request))
           /\ wire' = request
           /\ reply' = rsp
    /\ IF rsp.http = "ok"
       THEN pc' = "verifyChunks" /\ UNCHANGED outcome
       ELSE IF Len(net) < 3
       THEN UNCHANGED <<pc, outcome>>
       ELSE Leave("raise", PyError("URLError"), NoValue)
    /\ UNCHANGED <<token, token_secret, cache_enabled, cache_expire, memory_cache,
                   clock, up, socket>>

\* variant: a failed transfer is passed over and the upload goes on
UploadPutSwallowing(rsp) ==
    /\ pc = "put"
    /\ LET request == HttpRequest("PUT", up.endpoint, EmptyMap, EmptyMap, EmptyMap)
       IN  /\ net' = Append(net, Summary(request))
           /\ wire' = request
           /\ reply' = rsp
    /\ pc' = "verifyChunks"
    /\ UNCHANGED <<token, token_secret, cache_enabled, cache_expire, memory_cache,
                   clock, up, outcome, socket>>

\* the file is PUT to the ticket's endpoint through self._urlopener
UploadPut(rsp) ==
    /\ pc = "put"
    /\ LET request == HttpRequest("PUT", up.endpoint, EmptyMap, EmptyMap, EmptyMap)
       IN  /\ net' = Append(net, Summary(request))
           /\ wire' = request
           /\ reply' = rsp
    /\ IF rsp.http = "ok"
       THEN pc' = "verifyChunks" /\ UNCHANGED outcome
       ELSE Leave("raise", PyError("URLError"), NoValue)
    /\ UNCHANGED <<token, token_secret, cache_enabled, cache_expire, memory_cache,
                   clock, up, socket>>

\* variant: the reported size is compared with itself
SizeMismatchSelf(info, file_size) == info.size # info.size

\* int(info['size']) != file_size
SizeMismatch(info, file_size) == info.size # file_size

\* the integrity error appended when the sizes differ
IntegrityError(info) ==
    VimeoAPIError("", "",
        <<"File chunk id", info.chunk_id, "is", info.size, "bytes but",
          info.size, "were uploaded">>)

\* variant: the ticket of the client's first upload is used again
TicketParamsFirst(ticket) == "ticket_id" :> "t1"

\* {'ticket_id': ticket}
TicketParams(ticket) == "ticket_id" :> ticket

UploadVerifyChunks(nonce, rsp) ==
    /\ pc = "verifyChunks"
    /\ LET r == call("vimeo.videos.upload.verifyChunks", TicketParams(up.ticket),
                     "GET", API_REST_URL, TRUE, nonce, rsp)
       IN  /\ Effects(r, rsp, net)
           /\ IF r.kind = "raise"
              THEN Leave("raise", r.exc, NoValue) /\ UNCHANGED up
              ELSE IF Unusable(r)
              THEN Leave("raise", PyError("TypeError"), NoValue) /\ UNCHANGED up
              ELSE /\ up' = [up EXCEPT
                               !.chunk_size = r.value.data.size,
                               !.errors = IF SizeMismatch(r.value.data, up.file_size)
                                          THEN <<IntegrityError(r.value.data)>>
                                          ELSE <<>>]
                   /\ pc' = "complete"
                   /\ UNCHANGED outcome
    /\ UNCHANGED <<token, token_secret, cache_enabled, cache_expire, clock>>

UploadComplete(nonce, rsp) ==
    /\ pc = "complete"
    /\ LET method == "vimeo.videos.upload.complete"
           r == call(method, ("filename" :> FileName) @@ TicketParams(up.ticket),
                     "GET", API_REST_URL, TRUE, nonce, rsp)
       IN  /\ Effects(r, rsp, net)
           /\ IF r.kind = "raise"
              THEN Leave("raise", r.exc, NoValue)
              ELSE IF Unusable(r)
              THEN Leave("raise", PyError("TypeError"), NoValue)
              ELSE IF r.value.stat = "ok"
              THEN Leave("return", NoExc,
                         [video_id |-> r.value.data.video_id, errors |-> up.errors])
              ELSE Leave("raise", ApiErrorOf(method, r.value), NoValue)
    /\ up' \in {[up EXCEPT !.fp = h] : h \in AfterExit(outcome'.kind, up.fp)}
    /\ UNCHANGED <<token, token_secret, cache_enabled, cache_expire, clock>>

(***************************************************************************)
(* Specification.                                                          *)
(***************************************************************************)
\* the steps of upload()
UploadSteps(nonces, files) ==
    \/ \E file \in files, size \in Sizes, rid \in ReplaceIds :
          UploadBegin(file, size, rid)
    \/ \E n \in nonces, rsp \in QuotaResponses : UploadGetQuota(n, rsp)
    \/ \E n \in nonces, rsp \in TicketResponses : UploadGetTicket(n, rsp)
    \/ \E rsp \in PutResponses : UploadPut(rsp)
    \/ \E n \in nonces, rsp \in VerifyResponses : UploadVerifyChunks(n, rsp)
    \/ \E n \in nonces, rsp \in CompleteResponses : UploadComplete(n, rsp)

TokenOps(nonces) ==
    \/ \E t \in Tokens, x \in Secrets : set_token(t, x)
    \/ \E p \in Permissions, cb \in Callbacks, n \in nonces,
          rsp \in RequestTokenResponses : auth(p, cb, n, rsp)
    \/ \E v \in Verifiers, n \in nonces, rsp \in AccessTokenResponses :
          get_access_token(v, n, rsp)

CacheSwitch ==
    \/ \E type \in {CACHE_MEMORY, CACHE_FILE} : enable_cache(type, Expire)
    \/ disable_cache

CallOps(methods, paramsets, verbs, flags, nonces, rsps) ==
    \E m \in methods, p \in paramsets, v \in verbs, c \in flags,
       n \in nonces, rsp \in rsps : Call(m, p, v, c, n, rsp)

\* the client without a cache: the auth flow, named calls and uploads
Next ==
    \/ TokenOps({"n1"})
    \/ CallOps(CallMethods, {EmptyMap}, {"GET"}, {TRUE}, {"n1"}, CallResponses)
    \/ UploadSteps({"n1"}, Files)

Spec == Init /\ [][Next]_vars

\* uploads with the cache switched on and off between them
NextUpload ==
    \/ CacheSwitch
    \/ UploadSteps({"n1"}, {"path"})

SpecUpload == Init /\ [][NextUpload]_vars

\* named calls through the cache as time passes
NextCache ==
    \/ CacheSwitch
    \/ \E type \in {None, CACHE_MEMORY, CACHE_FILE}, dir_set \in BOOLEAN :
          clear_cache(type, dir_set)
    \/ Tick
    \/ CallOps({"videos.getInfo"}, CallParams, {"GET"}, BOOLEAN, Nonces,
               {HttpOk(JsonOk([video |-> "info"])),
                HttpOk(JsonFail([code |-> "701", msg |-> "Invalid ticket"])),
                TransportError})

SpecCache == Init /\ [][NextCache]_vars

\* the requests made with the cache flag off, between uploads that fill the cache
NextUncached ==
    \/ CacheSwitch
    \/ \E cb \in Callbacks, rsp \in RequestTokenResponses :
          GetRequestToken(cb, "n1", rsp)
    \/ \E v \in Verifiers, rsp \in AccessTokenResponses : get_access_token(v, "n1", rsp)
    \/ UploadSteps({"n1"}, {"path"})

SpecUncached == Init /\ [][NextUncached]_vars

\* arguments a caller hands to call(): plain ones, null-valued ones and
\* ones whose key starts with oauth_
RequestParams ==
    {EmptyMap,
     "video_id" :> "v1",
     "video_id" :> None,
     "oauth_callback" :> None,
     ("video_id" :> "v1") @@ ("oauth_verifier" :> "vf1"),
     "format" :> "xml",
     "method" :> "vimeo.test.null"}

\* the request builder with every verb, both header modes and no cache
NextRequest ==
    \/ \E t \in Tokens, x \in Secrets : set_token(t, x)
    \/ \E cb \in Callbacks \cup {None},
          rsp \in {HttpOk([oauth_token |-> "rt1", oauth_token_secret |-> "rs1"]),
                   TransportError} : auth("read", cb, "n1", rsp)
    \/ \E v \in Verifiers, rsp \in AccessTokenResponses : get_access_token(v, "n1", rsp)
    \/ CallOps({"videos.getInfo"}, RequestParams, Verbs, {TRUE}, Nonces,
               {HttpOk(JsonOk([video |-> "info"])),
                HttpOk(JsonFail([code |-> "701", msg |-> "Invalid ticket"])),
                TransportError})

SpecRequest == Init /\ [][NextRequest]_vars

\* parameter mappings handed to the signature engine: the first keys of
\* SignKeys with their values, under each nonce
SignKeys == <<"oauth_nonce", "method", "format", "video_id", "oauth_token">>
SignValues ==
    [oauth_nonce |-> "n1", method |-> "vimeo.videos.getInfo", format |-> "json",
     video_id |-> "v1", oauth_token |-> "at1"]
SignParams ==
    {[k \in {SignKeys[i] : i \in 1..n} |->
        IF k = "oauth_nonce" THEN nonce ELSE SignValues[k]] :
        n \in 1..MaxKeys, nonce \in Nonces}

\* the orders in which a dict with the keys of params can iterate
Orders(params) ==
    {o \in [1..Cardinality(DOMAIN params) -> DOMAIN params] :
        \A i, j \in DOMAIN o : o[i] = o[j] => i = j}

\* the signature engine alone, under every token pair
NextSign ==
    \/ \E t \in Tokens, x \in Secrets : set_token(t, x)
    \/ \E params \in SignParams, request_method \in {"GET", "get", "POST"},
          url \in {API_REST_URL, API_REQUEST_TOKEN_URL} :
          \E key_list \in Orders(params) :
             GenerateSignature(params, key_list, request_method, url)

SpecSign == Init /\ [][NextSign]_vars

\* named calls and the auth flow on an interpreter without the timeout argument
NextLegacy ==
    \/ \E p \in Permissions, cb \in Callbacks,
          rsp \in {HttpOk([oauth_token |-> "rt1", oauth_token_secret |-> "rs1"]),
                   TransportError} : auth(p, cb, "n1", rsp)
    \/ \E v \in Verifiers, rsp \in AccessTokenResponses : get_access_token(v, "n1", rsp)
    \/ CallOps(CallMethods, CallParams, {"GET"}, {TRUE}, Nonces, CallResponses)

SpecLegacy == InitLegacy /\ [][NextLegacy]_vars

(***************************************************************************)
(* Properties.                                                             *)
(***************************************************************************)
Last(seq) == seq[Len(seq)]
IsPrefix(a, b) == Len(a) <= Len(b) /\ \A i \in 1..Len(a) : a[i] = b[i]
InUpload == outcome.op = "upload"
GetQuota == "vimeo.videos.upload.getQuota"
GetTicket == "vimeo.videos.upload.getTicket"
VerifyChunks == "vimeo.videos.upload.verifyChunks"
Complete == "vimeo.videos.upload.complete"
\* the network steps of the running or last upload, in the order they were issued
Steps == [i \in 1..Len(net) |-> IF net[i].verb = "PUT" THEN "PUT" ELSE net[i].method]
UploadOrder == <<GetQuota, GetTicket, "PUT", VerifyChunks, Complete>>
Raised(type, code) ==
    /\ pc = "idle"
    /\ outcome.kind = "raise"
    /\ outcome.exc.type = type
    /\ outcome.exc.code = code

\* C1: once getQuota has reported the free space of an upload, a free space
\* smaller than the file size means the upload has failed with API error 707
\* and getQuota is the only request it ever issued (no getTicket, PUT,
\* verifyChunks or complete); a free space of at least the file size means the
\* upload went on to the ticket step.
C1_QuotaGate ==
    (InUpload /\ up.quota_free >= 0) =>
        IF up.quota_free < up.file_size
        THEN Raised("VimeoAPIError", "707") /\ outcome.exc.method = GetQuota
             /\ Steps = <<GetQuota>>
        ELSE pc = "getTicket" \/ Len(net) >= 2

C1_Witness ==
    /\ InUpload /\ up.quota_free >= 0 /\ up.quota_free < up.file_size
    /\ Raised("VimeoAPIError", "707")

\* C2: once getTicket has answered an upload, a file larger than the ticket's
\* max_file_size means the upload has failed with API error 710 having issued
\* only getQuota and getTicket (no PUT, verifyChunks or complete); a file of at
\* most the maximum, the maximum itself included, goes on to the transfer.
C2_SizeGate ==
    (InUpload /\ up.max_file_size >= 0) =>
        IF up.file_size > up.max_file_size
        THEN Raised("VimeoAPIError", "710") /\ outcome.exc.method = GetTicket
             /\ Steps = <<GetQuota, GetTicket>>
        ELSE pc = "put" \/ Len(net) >= 3

C2_Witness ==
    /\ InUpload /\ up.max_file_size >= 0 /\ up.file_size > up.max_file_size
    /\ Raised("VimeoAPIError", "710")

C2_WitnessEqual ==
    /\ InUpload /\ up.file_size = up.max_file_size /\ Len(net) >= 3

\* C3: the requests of an upload are always a prefix of getQuota, getTicket,
\* PUT, verifyChunks, complete, and an upload that has returned issued exactly
\* these five, each once and in this order.
C3_StepOrder ==
    InUpload =>
        /\ IsPrefix(Steps, UploadOrder)
        /\ (outcome.kind = "return" => Steps = UploadOrder)

C3_Witness ==
    /\ InUpload /\ outcome.kind = "return" /\ Steps = UploadOrder
    /\ cache_enabled = CACHE_MEMORY

\* C4: when complete has answered "ok", the upload has returned the video id
\* of that answer with a list of integrity errors that is empty exactly when
\* the size verifyChunks reported equals the file size.
C4_IntegrityAdvisory ==
    (InUpload /\ pc = "idle" /\ Len(net) = 5 /\ reply.http = "ok"
        /\ reply.body.stat = "ok") =>
        /\ outcome.kind = "return"
        /\ outcome.value.video_id = reply.body.data.video_id
        /\ (outcome.value.errors = <<>>) <=> (up.chunk_size = up.file_size)

C4_Witness ==
    /\ InUpload /\ outcome.kind = "return"
    /\ up.chunk_size # up.file_size /\ Len(outcome.value.errors) = 1

\* C5: when the answer to a named method call (issued by call() or by a step
\* of upload()) has a stat other than "ok", the operation has failed with a
\* VimeoAPIError carrying the method sent, the server's code and the server's
\* message; so a rejected complete leaves upload() raising the server's code.
C5_ApiErrorCarried ==
    (outcome.op \in {"call", "upload"} /\ net # <<>> /\ Last(net).method # ""
        /\ reply.http = "ok" /\ reply.body.stat # "ok") =>
        /\ pc = "idle"
        /\ outcome.kind = "raise"
        /\ outcome.exc.type = "VimeoAPIError"
        /\ outcome.exc.method = Last(net).method
        /\ outcome.exc.code = reply.body.err.code
        /\ outcome.exc.msg = reply.body.err.msg

C5_Witness ==
    /\ InUpload /\ Steps = UploadOrder /\ reply.http = "ok"
    /\ reply.body.stat # "ok" /\ Raised("VimeoAPIError", "701")

\* C6: once the data transfer of an upload has completed, the upload ends only
\* after complete was called, whatever verifyChunks answered, and it returns
\* exactly when complete answered "ok".
C6_OnlyCompleteDecides ==
    (InUpload /\ pc = "idle" /\ Len(net) >= 4 /\ reply.http = "ok") =>
        /\ Len(net) = 5
        /\ (outcome.kind = "return") <=> (reply.body.stat = "ok")

\* C7: a get_access_token step leaves the active token pair as it was, and the
\* active token becomes an access token only in a set_token step.
C7_AccessTokenNotAdopted ==
    [][/\ (outcome'.op = "get_access_token" =>
              token' = token /\ token_secret' = token_secret)
       /\ (token' \in AccessTokens /\ token' # token => outcome'.op = "set_token")]_vars

C7_Witness ==
    /\ outcome.op = "get_access_token" /\ outcome.kind = "return"
    /\ token \in RequestTokens
    /\ outcome.value["oauth_token"] \in AccessTokens

\* C8: after a successful auth the active pair is the pair of the
\* request-token endpoint's answer, the returned URL is the authorize URL with
\* that token and the requested permission, and the only request made was one
\* GET to the request-token endpoint.
C8_AuthAdoptsRequestToken ==
    (outcome.op = "auth" /\ outcome.kind = "return") =>
        /\ reply.http = "ok"
        /\ token = reply.body.oauth_token
        /\ token_secret = reply.body.oauth_token_secret
        /\ outcome.value = <<API_AUTH_URL, "?oauth_token=", reply.body.oauth_token,
                             "&permission=", outcome.args.permission>>
        /\ Len(net) = 1
        /\ net[1].url = API_REQUEST_TOKEN_URL
        /\ net[1].verb = "GET"

C8_Witness ==
    /\ outcome.op = "auth" /\ outcome.kind = "return"
    /\ "oauth_token" \in DOMAIN wire.signed
    /\ wire.signed["oauth_token"] \in AccessTokens
    /\ token \in RequestTokens

\* the state of the auth flow the client is in
TokenState ==
    IF token = None THEN "NO_TOKEN"
    ELSE IF token \in RequestTokens THEN "REQUEST_TOKEN_SET"
    ELSE "ACCESS_TOKEN_SET"
Authenticated == {"call", "upload"}

\* C9 as stated: a request of call() or upload() reaches the transport only in
\* ACCESS_TOKEN_SET, and one of get_access_token only in REQUEST_TOKEN_SET.
C9_DispatchOnlyWhenAuthorised ==
    /\ (outcome.op \in Authenticated /\ net # <<>>) => TokenState = "ACCESS_TOKEN_SET"
    /\ (outcome.op = "get_access_token" /\ net # <<>>) =>
            TokenState = "REQUEST_TOKEN_SET"

\* C9 as amended: call() and get_access_token hand their request to the
\* transport in every token state, and every signed request of call(),
\* upload() and get_access_token carries the active token as oauth_token when
\* one is set and no oauth_token when none is.
C9_TokenSentAsHeld ==
    /\ outcome.op \in {"call", "get_access_token"} => Len(net) = 1
    /\ outcome.op \in Authenticated \cup {"get_access_token"} =>
          \A i \in 1..Len(net) :
             net[i].verb # "PUT" =>
                net[i].oauth_token = (IF token = None THEN "" ELSE token)

C9_Witness ==
    /\ outcome.op = "call" /\ TokenState = "NO_TOKEN" /\ Len(net) = 1
    /\ net[1].oauth_token = ""

\* the method name call() passes on
Sent(method) == IF StartsWithVimeo(method) THEN method ELSE PrependVimeo(method)

\* C10: a cache-allowed call made while the memory cache holds an unexpired
\* "ok" response stored under the call's logical parameters makes no HTTP
\* request and returns that stored response.
C10_CacheHitNoNetwork ==
    [][LET a == outcome'.args
           key == Md5Hexdigest(CacheParams(
                    all_params(Sent(a.method), a.params, a.verb, API_REST_URL, "n1")))
       IN  (/\ outcome'.op = "call" /\ clock' = clock
            /\ cache_enabled = CACHE_MEMORY /\ cache_enabled' = CACHE_MEMORY
            /\ a.cache
            /\ key \in DOMAIN memory_cache
            /\ memory_cache[key].response_data.stat = "ok"
            /\ ~(memory_cache[key].stored + cache_expire < clock))
           => /\ net' = <<>>
              /\ outcome'.kind = "return"
              /\ outcome'.value = memory_cache[key].response_data]_vars

\* the parameter union of the last request handed to the transport
Transmitted == wire.query @@ wire.authorization

\* a union that differs from u at most in the values of the dropped keys
Revalued(u, nonce, timestamp, signature) ==
    [k \in DOMAIN u |->
        IF k = "oauth_nonce" THEN nonce
        ELSE IF k = "oauth_timestamp" THEN timestamp
        ELSE IF k = "oauth_signature" THEN signature
        ELSE u[k]]

\* C11: for the parameter union of a call and every union that differs from
\* it only in the values of oauth_nonce, oauth_timestamp and oauth_signature,
\* the key _cache stores a response under is the key _get_cached looks one up
\* under.
C11_SameCacheKey ==
    (outcome.op = "call" /\ net # <<>>) =>
        \A n \in Nonces, t \in 0..MaxTime :
            LET other == Revalued(Transmitted, n, ToString(t),
                                  Transmitted["oauth_signature"])
            IN  /\ _cache_hash(Transmitted) = _cache_hash(other)
                /\ _cache_hash(Transmitted) = _get_cached_hash(other)

\* the part of C11 that the code keeps: each of the two keys, taken alone,
\* does not depend on the values of the dropped keys
C11_EachKeyIgnoresDropped ==
    (outcome.op = "call" /\ net # <<>>) =>
        \A n \in Nonces, t \in 0..MaxTime :
            LET other == Revalued(Transmitted, n, ToString(t), "other")
            IN  /\ _cache_hash(Transmitted) = _cache_hash(other)
                /\ _get_cached_hash(Transmitted) = _get_cached_hash(other)

\* the key the memory cache files the call with arguments a under
CallKey(a) ==
    _cache_hash(all_params(Sent(a.method), a.params, a.verb, API_REST_URL, "n1"))

\* a step that is a call() made with the memory cache enabled
MemoryCall ==
    /\ outcome'.op = "call"
    /\ clock' = clock
    /\ cache_enabled = CACHE_MEMORY
    /\ cache_enabled' = CACHE_MEMORY

\* C12: with the memory cache enabled, a cache-allowed call whose entry was
\* stored less than the expiry ago is a hit (no request is made), a call whose
\* entry was stored more than the expiry ago goes to the network, and the
\* lookup of a call removes every entry older than the expiry and no entry
\* that is younger.
C12_ExpiryOnLookup ==
    [][MemoryCall =>
        LET a == outcome'.args
            key == CallKey(a)
        IN  /\ (/\ a.cache /\ a.verb = "GET"
                 /\ key \in DOMAIN memory_cache
                 /\ clock - memory_cache[key].stored < cache_expire)
                => net' = <<>> /\ outcome'.kind = "return"
            /\ (/\ a.verb = "GET"
                 /\ key \in DOMAIN memory_cache
                 /\ clock - memory_cache[key].stored > cache_expire)
                => Len(net') = 1
            /\ \A k \in DOMAIN memory_cache :
                  IF clock - memory_cache[k].stored > cache_expire
                  THEN k \in DOMAIN memory_cache' => memory_cache'[k].stored = clock
                  ELSE k \in DOMAIN memory_cache']_vars

\* the part of C12 that the code keeps: an entry older than the expiry is
\* treated as absent and removed by the lookup of the next call, and a lookup
\* removes no younger entry
C12_LazyEviction ==
    [][MemoryCall =>
        LET a == outcome'.args
            key == CallKey(a)
        IN  /\ (/\ a.verb = "GET"
                 /\ key \in DOMAIN memory_cache
                 /\ clock - memory_cache[key].stored > cache_expire)
                => Len(net') = 1
            /\ \A k \in DOMAIN memory_cache :
                  IF clock - memory_cache[k].stored > cache_expire
                  THEN k \in DOMAIN memory_cache' => memory_cache'[k].stored = clock
                  ELSE k \in DOMAIN memory_cache']_vars

\* C13: the memory cache holds only responses whose stat is "ok": a response
\* with another stat is never stored, so a call that fails with an API error
\* adds nothing to the cache.
C13_OnlyOkStored ==
    \A k \in DOMAIN memory_cache : memory_cache[k].response_data.stat = "ok"

\* a step that is the getTicket request of an upload
TicketStep == pc = "getTicket" /\ pc' # "getTicket"

\* a step that is the request-token or the access-token call
TokenStep == outcome'.op \in {"get_request_token", "get_access_token"}

\* C14: a request made with the cache flag off (getTicket in upload(), the
\* request-token call, the access-token call) stores nothing in the cache and
\* returns only what the transport answered to a request made in that step;
\* every getTicket step of an upload hands a new getTicket request to the
\* transport.
C14_UncachedFresh ==
    [][(TicketStep \/ TokenStep) =>
        /\ \A k \in DOMAIN memory_cache' :
              k \in DOMAIN memory_cache /\ memory_cache'[k] = memory_cache[k]
        /\ TicketStep =>
              /\ Len(net') = Len(net) + 1
              /\ Last(net').method = GetTicket
              /\ pc' = "put" => /\ reply'.http = "ok"
                                /\ up'.ticket = reply'.body.data.id
        /\ (TokenStep /\ outcome'.kind = "return") =>
              /\ Len(net') = 1
              /\ reply'.http = "ok"
              /\ outcome'.value = _parse_token_string(reply'.body)]_vars

C14_Witness ==
    /\ pc = "put" /\ cache_enabled = CACHE_MEMORY
    /\ memory_cache # EmptyMap
    /\ Last(net).method = GetTicket

C14_WitnessToken ==
    /\ outcome.op = "get_request_token" /\ outcome.kind = "return"
    /\ cache_enabled = CACHE_MEMORY /\ memory_cache # EmptyMap

\* the keys that start with oauth_
OAuthKeys ==
    OAuthPrefixed \cup {"oauth_consumer_key", "oauth_version", "oauth_signature_method",
                        "oauth_timestamp", "oauth_signature"}

\* the last request was built by the request builder and reached the transport
Dispatched(verb) == net # <<>> /\ wire.verb = verb /\ wire.signed # EmptyMap

\* C15: for every GET the request builder dispatched: with an Authorization
\* header the query string holds exactly the parameters whose key does not
\* start with oauth_ and the header exactly those whose key does,
\* oauth_signature among them; without one the query string holds all of
\* them, oauth_signature among them. Either way the parameters transmitted,
\* oauth_signature left out, are the parameters the signature was computed
\* over, with the same values.
C15_TransmittedIsSigned ==
    Dispatched("GET") =>
        LET sig == Transmitted["oauth_signature"]
            over == sig.base_string.query
        IN  /\ "oauth_signature" \in DOMAIN Transmitted
            /\ Restrict(Transmitted, DOMAIN Transmitted \ {"oauth_signature"}) = over
            /\ wire.signed = over
            /\ IF wire.has_auth_header
               THEN /\ wire.query = Restrict(over, DOMAIN over \ OAuthKeys)
                    /\ DOMAIN wire.authorization =
                          (DOMAIN over \cap OAuthKeys) \cup {"oauth_signature"}
               ELSE /\ wire.authorization = EmptyMap
                    /\ DOMAIN wire.query = DOMAIN over \cup {"oauth_signature"}

C15_Witness ==
    /\ Dispatched("GET") /\ wire.has_auth_header
    /\ outcome.op = "call"
    /\ {"video_id", "oauth_verifier", "oauth_token"} \subseteq DOMAIN Transmitted

C15_WitnessNoHeader ==
    /\ Dispatched("GET") /\ ~wire.has_auth_header
    /\ outcome.op = "auth"
    /\ "oauth_callback" \in DOMAIN wire.query

\* C16: a call() made with the verb POST hands one POST request for the target
\* URL to the transport and ends as a GET would: it returns exactly when the
\* answer's stat is "ok".
C16_PostDispatched ==
    (outcome.op = "call" /\ outcome.args.verb = "POST") =>
        /\ Len(net) = 1
        /\ net[1].verb = "POST"
        /\ net[1].url = API_REST_URL
        /\ (outcome.kind = "return") <=> (reply.http = "ok" /\ reply.body.stat = "ok")

\* the arguments the caller of the last operation supplied to the request builder
CallerParams ==
    IF outcome.op = "call" THEN outcome.args.params
    ELSE IF outcome.op = "auth" THEN "oauth_callback" :> outcome.args.callback_url
    ELSE EmptyMap

\* C20: a key the caller supplied with a null value appears neither in the
\* signed parameters, nor in the query string, nor in the Authorization
\* header of the request, whatever the key is.
C20_NullNeverSent ==
    net # <<>> =>
        \A k \in DOMAIN CallerParams :
            CallerParams[k] = None =>
                /\ k \notin DOMAIN wire.signed
                /\ k \notin DOMAIN wire.query
                /\ k \notin DOMAIN wire.authorization

\* the part of C20 that the code keeps: a null-valued key that does not start
\* with oauth_ is neither signed nor sent
C20_NullApiDropped ==
    net # <<>> =>
        \A k \in DOMAIN CallerParams \ OAuthKeys :
            CallerParams[k] = None =>
                /\ k \notin DOMAIN wire.signed
                /\ k \notin DOMAIN wire.query
                /\ k \notin DOMAIN wire.authorization

C20_WitnessDropped ==
    /\ outcome.op = "call" /\ net # <<>>
    /\ "video_id" \in DOMAIN outcome.args.params
    /\ outcome.args.params["video_id"] = None
    /\ "video_id" \notin DOMAIN wire.query

\* C17: no step makes more than one HTTP request, and an upload whose last
\* request failed in the transport (in the quota, ticket, PUT, verify or
\* complete step) has ended with the transport error, having issued each step
\* up to the failed one once, in order, and none after it.
C17_NoRetry ==
    [][/\ \/ net' = net
          \/ net' = <<>>
          \/ Len(net') = Len(net) + 1 /\ SubSeq(net', 1, Len(net)) = net
          \/ Len(net') = 1
       /\ (InUpload' /\ reply'.http = "error") =>
             /\ pc' = "idle"
             /\ outcome'.kind = "raise"
             /\ outcome'.exc = PyError("URLError")
             /\ IsPrefix(Steps', UploadOrder)
       /\ (InUpload /\ reply.http = "error") => pc = "idle"]_vars

C17_Witness ==
    /\ InUpload /\ Steps = <<GetQuota, GetTicket, "PUT">>
    /\ reply.http = "error" /\ Raised("URLError", "")

C17_WitnessComplete ==
    /\ InUpload /\ Steps = UploadOrder
    /\ reply.http = "error" /\ Raised("URLError", "")

\* C18: clear_cache completes; called for the memory backend, by name or as
\* the active backend when no name is given, it leaves the memory cache
\* empty; called with no name while no cache is active it removes nothing.
C18_ClearCacheClears ==
    outcome.op = "clear_cache" =>
        /\ outcome.kind = "return"
        /\ (\/ outcome.args.cache_type = CACHE_MEMORY
            \/ outcome.args.cache_type = None /\ cache_enabled = CACHE_MEMORY)
           => memory_cache = EmptyMap

\* the part of C18 that the code keeps: clear_cache called with the memory
\* backend named completes and leaves the memory cache empty
C18_NamedMemoryCleared ==
    (outcome.op = "clear_cache" /\ outcome.args.cache_type = CACHE_MEMORY) =>
        outcome.kind = "return" /\ memory_cache = EmptyMap

\* a step that computes a signature
Signing == outcome'.op = "_generate_signature"

\* C19: two signatures computed one after the other from the same mapping,
\* verb and URL under the same secrets are the same signature, base string
\* included, in whatever order the keys of the mapping iterate; computing a
\* signature changes neither the mapping nor the client's state and makes no
\* request.
C19_OrderIndependent ==
    [][Signing =>
        /\ UNCHANGED <<token, token_secret, cache_enabled, cache_expire, memory_cache>>
        /\ net' = <<>>
        /\ outcome'.value.params = outcome'.args.params
        /\ (/\ outcome.op = "_generate_signature"
            /\ outcome.args.params = outcome'.args.params
            /\ outcome.args.request_method = outcome'.args.request_method
            /\ outcome.args.url = outcome'.args.url)
           => outcome'.value.signature = outcome.value.signature]_vars

C19_Witness ==
    /\ outcome.op = "_generate_signature"
    /\ Len(outcome.args.key_list) = 3
    /\ outcome.args.key_list # sorted(outcome.args.key_list)
    /\ token_secret = "rs1"

\* the signature computed statement by statement carries the verb in upper
\* case, the URL, the pairs of the mapping and the two secrets, and nothing
\* of the order of the keys: it is the signature the request builder uses
SignatureOfMapping ==
    outcome.op = "_generate_signature" =>
        LET sig == outcome.value.signature
            a == outcome.args
            abs == _generate_signature(a.params, a.request_method, a.url)
            q == unquote(sig.base_string[3])
            at(k) == CHOOSE i \in 1..Len(q) : q[i][1] = k
        IN  /\ unquote(sig.base_string[1]) = abs.base_string.verb
            /\ unquote(sig.base_string[2]) = abs.base_string.url
            /\ Len(q) = Cardinality(DOMAIN a.params)
            /\ {q[i][1] : i \in 1..Len(q)} = DOMAIN abs.base_string.query
            /\ \A k \in DOMAIN a.params :
                  unquote(q[at(k)][2]) = abs.base_string.query[k]
            /\ unquote(sig.key[1]) = abs.key.consumer_secret
            /\ unquote(sig.key[2]) = abs.key.token_secret

\* the method name the request builder was given by the last operation
GivenMethod == IF outcome.op = "call" THEN Sent(outcome.args.method) ELSE None

\* C21: every request the request builder signed and dispatched carries
\* format=json and, when a method name was given, that name as method,
\* whatever the caller's arguments are; no key of the query of a request with
\* an Authorization header starts with oauth_, and no key of the header does
\* not.
C21_FormatAndMethodFixed ==
    (net # <<>> /\ wire.signed # EmptyMap) =>
        /\ "format" \in DOMAIN Transmitted
        /\ Transmitted["format"] = "json"
        /\ wire.signed["format"] = "json"
        /\ IF GivenMethod # None
           THEN /\ "method" \in DOMAIN Transmitted
                /\ Transmitted["method"] = GivenMethod
           ELSE "method" \notin DOMAIN Transmitted
        /\ wire.has_auth_header =>
              /\ DOMAIN wire.query \cap OAuthKeys = {}
              /\ DOMAIN wire.authorization \subseteq OAuthKeys

\* the part of C21 that the code keeps: the caller's oauth_ keys travel with
\* the oauth parameters and the two groups share no key, and format and
\* method are as the claim says unless the caller supplies a key of that name
C21_GroupsDisjoint ==
    (net # <<>> /\ wire.signed # EmptyMap) =>
        /\ wire.has_auth_header =>
              /\ DOMAIN wire.query \cap OAuthKeys = {}
              /\ DOMAIN wire.authorization \subseteq OAuthKeys
              /\ DOMAIN CallerParams \cap OAuthKeys \subseteq DOMAIN wire.authorization
        /\ "format" \notin DOMAIN CallerParams => Transmitted["format"] = "json"
        /\ "method" \notin DOMAIN CallerParams =>
              IF GivenMethod # None
              THEN Transmitted["method"] = GivenMethod
              ELSE "method" \notin DOMAIN Transmitted

\* C22: every call that goes through the request builder leaves the
\* process-wide default timeout as it found it, also when the interpreter's
\* urlopen takes no timeout argument and the request fails in the transport.
C22_TimeoutRestored ==
    [][socket'.default_timeout = socket.default_timeout]_vars

\* the part of C22 that the code keeps: a call whose request the transport
\* answered leaves the default timeout as it found it
C22_RestoredWhenAnswered ==
    [][reply'.http = "ok" => socket'.default_timeout = socket.default_timeout]_vars

\* C23: when an upload that was given a path has ended, by a return or by
\* an exception, the handle it opened is closed.
C23_HandleClosedOnExit ==
    (InUpload /\ pc = "idle") => up.fp # "open"

\* C24: an auth() that fails, by a transport error or by an answer that
\* lacks oauth_token or oauth_token_secret, leaves the active pair as it was;
\* an auth() changes the pair only when the answer holds both.
C24_AuthFailureKeepsPair ==
    [][outcome'.op = "auth" =>
        /\ outcome'.kind = "raise" =>
              token' = token /\ token_secret' = token_secret
        /\ (token' # token \/ token_secret' # token_secret) =>
              /\ reply'.http = "ok"
              /\ {"oauth_token", "oauth_token_secret"}
                    \subseteq DOMAIN _parse_token_string(reply'.body)
              /\ outcome'.kind = "return"]_vars

C24_Witness ==
    /\ outcome.op = "auth" /\ Raised("KeyError", "")
    /\ reply.http = "ok"
    /\ "oauth_token" \in DOMAIN _parse_token_string(reply.body)
    /\ token = "at1" /\ token_secret = "as1"

C24_WitnessTransport ==
    /\ outcome.op = "auth" /\ Raised("URLError", "")
    /\ token = "at1" /\ token_secret = "as1"

\* C25: an upload starts with no ticket; its getTicket request carries
\* video_id exactly when a replace id was given, and the ticket and endpoint
\* it goes on with are those of the answer; the PUT goes to that endpoint,
\* and verifyChunks and complete carry that ticket id.
C25_TicketBinding ==
    [][/\ (pc = "idle" /\ pc' = "getQuota") =>
             up'.ticket = "unbound" /\ up'.endpoint = "unbound"
       /\ TicketStep =>
             /\ wire'.query["method"] = GetTicket
             /\ ("video_id" \in DOMAIN wire'.query) <=> (up.replace_id # None)
             /\ up.replace_id # None => wire'.query["video_id"] = up.replace_id
             /\ pc' = "put" => /\ up'.ticket = reply'.body.data.id
                               /\ up'.endpoint = reply'.body.data.endpoint
       /\ (pc = "put" /\ pc' # "put") =>
             /\ wire'.verb = "PUT"
             /\ wire'.url = up.endpoint
             /\ up' = up
       /\ (pc = "verifyChunks" /\ pc' # "verifyChunks") =>
             /\ wire'.query["method"] = VerifyChunks
             /\ wire'.query["ticket_id"] = up.ticket
             /\ up'.ticket = up.ticket
       /\ (pc = "complete" /\ pc' # "complete") =>
             /\ wire'.query["method"] = Complete
             /\ wire'.query["ticket_id"] = up.ticket
             /\ up'.ticket = up.ticket]_vars

C25_Witness ==
    /\ InUpload /\ outcome.kind = "return" /\ Steps = UploadOrder
    /\ up.replace_id = "v0"
    /\ up.ticket = "t2"
    /\ net[3].url = Endpoint("t2")
    /\ net[4].ticket_id = "t2" /\ net[5].ticket_id = "t2"
====
